---- MODULE Spec2Model ----
(***************************************************************************)
(* A model of streamlit_app.py: the Streamlit script that previews an      *)
(* uploaded skin-test image and, on "Run analysis", sends it through two   *)
(* Replicate deployments (crop, explain) and shows a triage card.          *)
(*                                                                         *)
(* Streamlit re-executes the script top to bottom on every widget event.   *)
(* Script-local names (crop_pred, cropped, ...) start afresh on each       *)
(* execution; only st.session_state (image, last_uploaded_name) survives.  *)
(* An uncaught exception ends the execution and is shown in the page.      *)
(* A widget event that arrives while an execution is in progress stops it  *)
(* at its next st.* call and starts a new execution.                       *)
(*                                                                         *)
(* Probabilities are counted in units of 1/10000 (0.60 is 6000); decimal   *)
(* literals with four digits round to distinct doubles in the same order,  *)
(* so the comparisons of the script are the comparisons below.             *)
(***************************************************************************)
EXTENDS Integers, Sequences, FiniteSets, TLC

\* ---------------------------------------------------------------- bounds
\* Number of distinct picture contents the environment can produce.
MaxPixels == 2
\* The largest probability explored, in units of 1/10000 (10000 is 1.0).
MaxProb == 10000

\* ------------------------------------------------------ program constants
\* `if prob >= 0.60` and `elif prob >= 0.40`, in units of 1/10000.
POSITIVE_THRESHOLD == 6000
MANUAL_THRESHOLD == 4000
\* DISPLAY_HEIGHT = 350
DISPLAY_HEIGHT == 350

\* ------------------------------------------------------------------ data
None == [kind |-> "None"]

Names == {"a.jpg", "b.png"}
Pixels == 1..MaxPixels

\* Bytes that hold a picture, and bytes that hold none. The colour mode of
\* the stored picture is not kept: every picture is converted to RGB when it
\* is opened.
Malformed == [kind |-> "bytes", format |-> "garbage"]
PictureBytes(formats) ==
    [kind : {"bytes"}, format : formats, pixels : Pixels]
IsImageData(b) == b.format \in {"JPEG", "PNG"}

\* The file uploader accepts jpg, jpeg and png; the name decides nothing
\* about the content.
UploadBytes == PictureBytes({"JPEG"}) \cup {Malformed}
UploadedFiles == [kind : {"file"}, name : Names, bytes : UploadBytes]

\* What a URL of the remote side answers to requests.get.
Responses ==
    [status : {200}, content : PictureBytes({"PNG"}) \cup {Malformed}]
        \cup {[status |-> 500, content |-> Malformed]}

\* Image.open(...).convert("RGB"): the pixels are kept, the mode is RGB.
Decode(b) == [kind |-> "Image", pixels |-> b.pixels, mode |-> "RGB"]

\* cropped.save(buf, format="PNG"); buf.seek(0)
EncodePNG(img) ==
    [kind |-> "bytes", format |-> "PNG", pixels |-> img.pixels]

\* resize_for_display: the picture scaled to the display height (the width,
\* int(w * scale), is not modelled).
resize_for_display(img) ==
    [kind |-> "Display", pixels |-> img.pixels, mode |-> img.mode,
     height |-> DISPLAY_HEIGHT]

\* download_image(url): requests.get, raise_for_status, Image.open, convert.
\* A url that is no URL at all (None) makes requests.get raise.
download_image(url) ==
    IF url.kind # "url"
    THEN [ok |-> FALSE, error |-> "MissingSchema"]
    ELSE IF url.response.status # 200
    THEN [ok |-> FALSE, error |-> "HTTPError"]
    ELSE IF ~IsImageData(url.response.content)
    THEN [ok |-> FALSE, error |-> "UnidentifiedImageError"]
    ELSE [ok |-> TRUE, image |-> Decode(url.response.content)]

VARIABLES
    token,              \* REPLICATE_API_TOKEN is set in the environment
    uploaded,           \* the file uploader's value
    session_image,      \* st.session_state.image
    last_uploaded_name, \* st.session_state.last_uploaded_name
    canvas,             \* what the st.empty() placeholder shows
    progress,           \* the progress bar's value, None before st.progress
    pc,                 \* the position of the current script execution
    image,              \* the script's `image`
    crop_pred,          \* the script's `crop_pred`
    cropped,            \* the script's `cropped`
    explain_pred,       \* the script's `explain_pred`
    explain_out,        \* the script's `explain_out`
    heatmap_img,        \* the script's `heatmap_img`
    result,             \* prob, label, advice, color of the triage decision
    events,             \* what this execution has rendered, in order
    err,                \* the exception shown in the page, with its stage
    calls,              \* remote calls made by this execution, per call site
    output_read,        \* the predictions whose .output this execution read
    prev_run            \* the last earlier run: its upload, the original it showed

vars == <<token, uploaded, session_image, last_uploaded_name, canvas,
          progress, pc, image, crop_pred, cropped, explain_pred,
          explain_out, heatmap_img, result, events, err, calls, output_read,
          prev_run>>

session == <<session_image, last_uploaded_name>>
locals == <<image, crop_pred, cropped, explain_pred, explain_out,
            heatmap_img, result>>

CallSites == {"create_crop", "wait_crop", "fetch_crop",
              "create_explain", "wait_explain", "fetch_heatmap"}
NoCalls == [s \in CallSites |-> 0]

EmptyCanvas == [kind |-> "empty"]
ImageCanvas(img, caption) ==
    [kind |-> "image", image |-> resize_for_display(img), caption |-> caption]

StageCompleted(stage, img) ==
    [type |-> "StageCompleted", stage |-> stage, image |-> img]

\* ---------------------------------------------------------------- Init
\* The first execution of the script: no upload yet, nothing in the session.
\* Line 9 prints the token, present or not, and goes on.
Init ==
    /\ token \in BOOLEAN
    /\ uploaded = None
    /\ session_image = None
    /\ last_uploaded_name = "None"
    /\ canvas = EmptyCanvas
    /\ progress = -1
    /\ pc = "idle"
    /\ image = None
    /\ crop_pred = None
    /\ cropped = None
    /\ explain_pred = None
    /\ explain_out = None
    /\ heatmap_img = None
    /\ result = None
    /\ events = <<>>
    /\ err = None
    /\ calls = NoCalls
    /\ output_read = {}
    /\ prev_run = None

\* ------------------------------------------------- the top of the script
\* Lines 69-108, executed for the uploader value u; clicked says whether the
\* event was a click of "Run analysis". The canvas placeholder is created
\* empty, the session image follows the upload's name, and the script either
\* previews the session image or enters the pipeline. A new execution
\* replaces what the last one left in the page, its exception included, and
\* starts with fresh script-local names.
ScriptTop(u, clicked) ==
    LET run == u # None /\ clicked
        renamed == u # None /\ u.name # last_uploaded_name
        opens == ~renamed \/ IsImageData(u.bytes)
        new_image == IF renamed /\ opens THEN Decode(u.bytes) ELSE session_image
        new_name == IF renamed /\ opens THEN u.name ELSE last_uploaded_name
    IN  /\ uploaded' = u
        /\ session_image' = new_image
        /\ last_uploaded_name' = new_name
        /\ crop_pred' = None
        /\ cropped' = None
        /\ explain_pred' = None
        /\ explain_out' = None
        /\ heatmap_img' = None
        /\ result' = None
        /\ events' = <<>>
        /\ calls' = NoCalls
        /\ output_read' = {}
        /\ progress' = -1
        /\ prev_run' = IF events # <<>>
                       THEN [upload |-> uploaded.bytes,
                             original |-> events[1].image]
                       ELSE prev_run
        /\ UNCHANGED token
        /\ IF ~opens
           THEN \* Image.open raises at line 95
                /\ canvas' = EmptyCanvas
                /\ image' = None
                /\ pc' = "failed"
                /\ err' = [type |-> "UnidentifiedImageError", stage |-> "upload"]
           ELSE IF run
           THEN \* line 108
                /\ canvas' = EmptyCanvas
                /\ image' = new_image
                /\ pc' = "get_deployments"
                /\ err' = None
           ELSE IF u # None
           THEN \* lines 98-102
                /\ canvas' = ImageCanvas(new_image, "Original image")
                /\ image' = None
                /\ pc' = "idle"
                /\ err' = None
           ELSE /\ canvas' = EmptyCanvas
                /\ image' = None
                /\ pc' = "idle"
                /\ err' = None

\* A widget event is served when no execution is in progress, or at the next
\* st.* call of the one in progress; the blocking calls of lines 111-112, 127
\* and 146 reach no st.* call.
Interruptible == pc \notin {"get_deployments", "crop_wait", "explain_wait"}

\* The user puts a file into the uploader.
Upload(f) ==
    /\ Interruptible
    /\ f # uploaded
    /\ ScriptTop(f, FALSE)

\* The user removes the file from the uploader.
RemoveUpload ==
    /\ Interruptible
    /\ uploaded # None
    /\ ScriptTop(None, FALSE)

\* The user clicks "Run analysis"; the button exists only beside an upload.
ClickRun ==
    /\ Interruptible
    /\ uploaded # None
    /\ ScriptTop(uploaded, TRUE)

\* ------------------------------------------------------- the remote side
Terminal == {"succeeded", "failed", "canceled"}

Url(job, response) == [kind |-> "url", job |-> job, response |-> response]

\* A Python dict read with [] and .get: a key that is not there is Absent.
Absent == [kind |-> "absent"]
Number(n) == [kind |-> "number", value |-> n]
NonNumeric == [kind |-> "text"]

\* The probabilities the explain deployment answers with in the pipeline, one
\* in each band: the top of the lowest and the bottom of the two others.
BoundaryProbs ==
    {MANUAL_THRESHOLD - 1, MANUAL_THRESHOLD, POSITIVE_THRESHOLD}

MetricsOver(probs) ==
    {Absent} \cup
    [kind : {"dict"},
     probability : {Absent, NonNumeric} \cup {Number(n) : n \in probs}]

\* The output of a succeeded explain prediction.
ExplainOutputs(job, probs) ==
    [kind : {"dict"},
     heatmap : {Absent} \cup {Url(job, r) : r \in Responses},
     metrics : MetricsOver(probs)]

\* deployment.predictions.create(input=...): a prediction that has not ended.
Prediction(job, deployment, input) ==
    [kind |-> "prediction", id |-> job, deployment |-> deployment,
     input |-> input, status |-> "starting", output |-> None]

\* An exception leaves the script: the execution ends and the page shows it.
Raise(type, stage) ==
    /\ pc' = "failed"
    /\ err' = [type |-> type, stage |-> stage]

\* d.get(key, default) for the keys the script reads
Get(value, default) == IF value = Absent THEN default ELSE value

\* ----------------------------------------------------------- the pipeline
\* Lines 111-112: replicate.deployments.get asks the service, which refuses
\* a request without a token.
GetDeployments ==
    /\ pc = "get_deployments"
    /\ \E outcome \in {"ok", "error"} :
          IF ~token
          THEN Raise("ReplicateError: unauthenticated", "deployments")
          ELSE IF outcome = "error"
          THEN Raise("ReplicateError", "deployments")
          ELSE /\ pc' = "show_original"
               /\ UNCHANGED err
    /\ UNCHANGED <<token, prev_run, uploaded, session, canvas, progress, locals,
                   events, calls, output_read>>

\* Lines 115-120, STATE 1: ORIGINAL
ShowOriginal ==
    /\ pc = "show_original"
    /\ canvas' = ImageCanvas(image, "Original uploaded image")
    /\ events' = Append(events, StageCompleted("original", image))
    /\ progress' = 15
    /\ pc' = "crop_submit"
    /\ UNCHANGED <<token, prev_run, uploaded, session, locals, err, calls,
                   output_read>>

\* Lines 123-126: the crop prediction is created from the uploader's file.
CropSubmit ==
    /\ pc = "crop_submit"
    /\ calls' = [calls EXCEPT !["create_crop"] = @ + 1]
    /\ \E outcome \in {"ok", "error"} :
          IF outcome = "error"
          THEN /\ Raise("ReplicateError", "crop")
               /\ UNCHANGED crop_pred
          ELSE /\ crop_pred' = Prediction("crop",
                                          "serum4321/cropmodel", uploaded.bytes)
               /\ pc' = "crop_wait"
               /\ UNCHANGED err
    /\ UNCHANGED <<token, prev_run, uploaded, session, canvas, progress, image,
                   cropped, explain_pred, explain_out, heatmap_img, result,
                   events, output_read>>

\* Line 127: crop_pred.wait() polls until the prediction has ended, whatever
\* the end; only a prediction that succeeded has an output.
CropWait ==
    /\ pc = "crop_wait"
    /\ calls' = [calls EXCEPT !["wait_crop"] = @ + 1]
    /\ \/ /\ Raise("ReplicateError", "crop")
          /\ UNCHANGED crop_pred
       \/ \E status \in Terminal, r \in Responses :
             /\ crop_pred' =
                   [crop_pred EXCEPT
                      !.status = status,
                      !.output = IF status = "succeeded"
                                 THEN Url(crop_pred.id, r) ELSE None]
             /\ pc' = "crop_fetch"
             /\ UNCHANGED err
    /\ UNCHANGED <<token, prev_run, uploaded, session, canvas, progress, image,
                   cropped, explain_pred, explain_out, heatmap_img, result,
                   events, output_read>>

\* The crop fetch with its exception caught and reported, the pipeline going
\* on with the original image.
CropFetch_swallow ==
    /\ pc = "crop_fetch"
    /\ output_read' = output_read \cup {crop_pred.id}
    /\ calls' = [calls EXCEPT !["fetch_crop"] = @ + 1]
    /\ LET got == download_image(crop_pred.output)
       IN  IF got.ok
           THEN /\ cropped' = got.image
                /\ UNCHANGED err
           ELSE /\ cropped' = image
                /\ err' = [type |-> got.error, stage |-> "crop"]
    /\ pc' = "crop_show"
    /\ UNCHANGED <<token, prev_run, uploaded, session, canvas, progress, image,
                   crop_pred, explain_pred, explain_out, heatmap_img, result,
                   events>>

\* The crop fetch tried a second time when the first try fails.
CropFetch_retry ==
    /\ pc = "crop_fetch"
    /\ output_read' = output_read \cup {crop_pred.id}
    /\ calls' = [calls EXCEPT !["fetch_crop"] = @ + 1]
    /\ LET got == download_image(crop_pred.output)
       IN  IF got.ok
           THEN /\ cropped' = got.image
                /\ pc' = "crop_show"
                /\ UNCHANGED err
           ELSE IF calls["fetch_crop"] = 0
           THEN UNCHANGED <<cropped, pc, err>>
           ELSE /\ Raise(got.error, "crop")
                /\ UNCHANGED cropped
    /\ UNCHANGED <<token, prev_run, uploaded, session, canvas, progress, image,
                   crop_pred, explain_pred, explain_out, heatmap_img, result,
                   events>>

\* Line 129: cropped = download_image(crop_pred.output)
CropFetch ==
    /\ pc = "crop_fetch"
    /\ output_read' = output_read \cup {crop_pred.id}
    /\ calls' = [calls EXCEPT !["fetch_crop"] = @ + 1]
    /\ LET got == download_image(crop_pred.output)
       IN  IF got.ok
           THEN /\ cropped' = got.image
                /\ pc' = "crop_show"
                /\ UNCHANGED err
           ELSE /\ Raise(got.error, "crop")
                /\ UNCHANGED cropped
    /\ UNCHANGED <<token, prev_run, uploaded, session, canvas, progress, image,
                   crop_pred, explain_pred, explain_out, heatmap_img, result,
                   events>>

\* Lines 131-135, STATE 2: CROP shown
CropShow ==
    /\ pc = "crop_show"
    /\ canvas' = ImageCanvas(cropped, "Detected reaction region")
    /\ events' = Append(events, StageCompleted("crop", cropped))
    /\ progress' = 45
    /\ pc' = "explain_submit"
    /\ UNCHANGED <<token, prev_run, uploaded, session, locals, err, calls,
                   output_read>>

\* The explain prediction created from the uploader's file, not from cropped.
ExplainSubmit_upload ==
    /\ pc = "explain_submit"
    /\ calls' = [calls EXCEPT !["create_explain"] = @ + 1]
    /\ \E outcome \in {"ok", "error"} :
          IF outcome = "error"
          THEN /\ Raise("ReplicateError", "heatmap")
               /\ UNCHANGED explain_pred
          ELSE /\ explain_pred' = Prediction("explain",
                                             "serum4321/tbsiglip",
                                             uploaded.bytes)
               /\ pc' = "explain_wait"
               /\ UNCHANGED err
    /\ UNCHANGED <<token, prev_run, uploaded, session, canvas, progress, image,
                   crop_pred, cropped, explain_out, heatmap_img, result,
                   events, output_read>>

\* Lines 138-145: the explain prediction is created from the PNG of cropped.
ExplainSubmit ==
    /\ pc = "explain_submit"
    /\ calls' = [calls EXCEPT !["create_explain"] = @ + 1]
    /\ \E outcome \in {"ok", "error"} :
          IF outcome = "error"
          THEN /\ Raise("ReplicateError", "heatmap")
               /\ UNCHANGED explain_pred
          ELSE /\ explain_pred' = Prediction("explain",
                                             "serum4321/tbsiglip",
                                             EncodePNG(cropped))
               /\ pc' = "explain_wait"
               /\ UNCHANGED err
    /\ UNCHANGED <<token, prev_run, uploaded, session, canvas, progress, image,
                   crop_pred, cropped, explain_out, heatmap_img, result,
                   events, output_read>>

\* Line 146: explain_pred.wait()
ExplainWait ==
    /\ pc = "explain_wait"
    /\ calls' = [calls EXCEPT !["wait_explain"] = @ + 1]
    /\ \/ /\ Raise("ReplicateError", "heatmap")
          /\ UNCHANGED explain_pred
       \/ \E status \in Terminal :
          \E out \in ExplainOutputs(explain_pred.id, BoundaryProbs) :
             /\ explain_pred' =
                   [explain_pred EXCEPT
                      !.status = status,
                      !.output = IF status = "succeeded" THEN out ELSE None]
             /\ pc' = "explain_fetch"
             /\ UNCHANGED err
    /\ UNCHANGED <<token, prev_run, uploaded, session, canvas, progress, image,
                   crop_pred, cropped, explain_out, heatmap_img, result,
                   events, output_read>>

\* Lines 148-149: explain_out = explain_pred.output, then the heatmap is
\* fetched from explain_out["heatmap"]. None has no [], a dict without the
\* key raises KeyError.
ExplainFetch ==
    /\ pc = "explain_fetch"
    /\ output_read' = output_read \cup {explain_pred.id}
    /\ explain_out' = explain_pred.output
    /\ IF explain_pred.output = None
       THEN /\ Raise("TypeError", "heatmap")
            /\ UNCHANGED <<heatmap_img, calls>>
       ELSE IF explain_pred.output.heatmap = Absent
       THEN /\ Raise("KeyError", "heatmap")
            /\ UNCHANGED <<heatmap_img, calls>>
       ELSE /\ calls' = [calls EXCEPT !["fetch_heatmap"] = @ + 1]
            /\ LET got == download_image(explain_pred.output.heatmap)
               IN  IF got.ok
                   THEN /\ heatmap_img' = got.image
                        /\ pc' = "heatmap_show"
                        /\ UNCHANGED err
                   ELSE /\ Raise(got.error, "heatmap")
                        /\ UNCHANGED heatmap_img
    /\ UNCHANGED <<token, prev_run, uploaded, session, canvas, progress, image,
                   crop_pred, cropped, explain_pred, result, events>>

\* The heatmap never put on the canvas: the script goes on to the result.
HeatmapShow_skip ==
    /\ pc = "heatmap_show"
    /\ progress' = 75
    /\ pc' = "final_result"
    /\ UNCHANGED <<token, prev_run, uploaded, session, locals, err, calls,
                   output_read, canvas, events>>

\* Lines 151-157, STATE 3: HEATMAP shown
HeatmapShow ==
    /\ pc = "heatmap_show"
    /\ canvas' = ImageCanvas(heatmap_img, "Model attention heatmap")
    /\ events' = Append(events, StageCompleted("heatmap", heatmap_img))
    /\ progress' = 75
    /\ pc' = "final_result"
    /\ UNCHANGED <<token, prev_run, uploaded, session, locals, err, calls,
                   output_read>>

\* ------------------------------------------------------ the final result
\* explain_out.get("metrics", {}): the default is the empty dict.
EmptyDict == [kind |-> "dict", probability |-> Absent]

\* float(x): the number itself, and an exception for what is no number.
Float(x) ==
    IF x.kind = "number"
    THEN [ok |-> TRUE, value |-> x.value]
    ELSE [ok |-> FALSE, error |-> "ValueError"]

\* The triage with the two boundaries exclusive (> written for >=).
Triage_exclusive(prob) ==
    IF prob > POSITIVE_THRESHOLD
    THEN [label |-> "LIKELY Tb POSITIVE",
          advice |-> "Visible induration detected",
          color |-> "#2ECC71"]
    ELSE IF prob > MANUAL_THRESHOLD
    THEN [label |-> "MANUAL CHECK REQUIRED",
          advice |-> "Visual features unclear - palpation recommended",
          color |-> "#F39C12"]
    ELSE [label |-> "NEGATIVE",
          advice |-> "No visible induration detected",
          color |-> "#E74C3C"]

\* Lines 167-181, TRIAGE DECISION. The dash of the second advice text is an
\* em dash in the script and is written " - " here.
Triage(prob) ==
    IF prob >= POSITIVE_THRESHOLD
    THEN [label |-> "LIKELY Tb POSITIVE",
          advice |-> "Visible induration detected",
          color |-> "#2ECC71"]
    ELSE IF prob >= MANUAL_THRESHOLD
    THEN [label |-> "MANUAL CHECK REQUIRED",
          advice |-> "Visual features unclear - palpation recommended",
          color |-> "#F39C12"]
    ELSE [label |-> "NEGATIVE",
          advice |-> "No visible induration detected",
          color |-> "#E74C3C"]

ResultReady(t, prob) ==
    [type |-> "ResultReady", label |-> t.label, advice |-> t.advice,
     probability |-> prob]

CardCanvas(t) ==
    [kind |-> "card", label |-> t.label, advice |-> t.advice, color |-> t.color]

\* Lines 162-209: the probability is read from the metrics, the triage is
\* decided and the card replaces the heatmap on the canvas.
FinalResult ==
    /\ pc = "final_result"
    /\ LET metrics == Get(explain_out.metrics, EmptyDict)
           prob == Float(Get(metrics.probability, Number(0)))
       IN  IF prob.ok
           THEN /\ result' = [prob |-> prob.value] @@ Triage(prob.value)
                /\ canvas' = CardCanvas(Triage(prob.value))
                /\ events' = Append(events,
                                    ResultReady(Triage(prob.value), prob.value))
                /\ progress' = 100
                /\ pc' = "done"
                /\ UNCHANGED err
           ELSE /\ Raise(prob.error, "result")
                /\ UNCHANGED <<result, canvas, events, progress>>
    /\ UNCHANGED <<token, prev_run, uploaded, session, image, crop_pred, cropped,
                   explain_pred, explain_out, heatmap_img, calls, output_read>>

\* ------------------------------------------------------- specification
Next ==
    \/ \E f \in UploadedFiles : Upload(f)
    \/ RemoveUpload
    \/ ClickRun
    \/ GetDeployments
    \/ ShowOriginal
    \/ CropSubmit
    \/ CropWait
    \/ CropFetch
    \/ CropShow
    \/ ExplainSubmit
    \/ ExplainWait
    \/ ExplainFetch
    \/ HeatmapShow
    \/ FinalResult

Spec == Init /\ [][Next]_vars

\* ------------------------------------------- the triage over every input
\* The execution stands before line 162 with the heatmap shown; the metrics
\* of the explain output range over every probability from 0 to MaxProb and
\* over the shapes that hold none.
TriagePicture == [kind |-> "bytes", format |-> "PNG", pixels |-> 1]
TriageUpload ==
    [kind |-> "file", name |-> "a.jpg",
     bytes |-> [kind |-> "bytes", format |-> "JPEG", pixels |-> 1]]
TriageUrl(stage) == Url(stage, [status |-> 200, content |-> TriagePicture])

InitTriage ==
    /\ token = TRUE
    /\ uploaded = TriageUpload
    /\ session_image = Decode(TriageUpload.bytes)
    /\ last_uploaded_name = TriageUpload.name
    /\ canvas = ImageCanvas(Decode(TriagePicture), "Model attention heatmap")
    /\ progress = 75
    /\ pc = "final_result"
    /\ image = Decode(TriageUpload.bytes)
    /\ crop_pred =
          [Prediction("crop", "serum4321/cropmodel", TriageUpload.bytes)
             EXCEPT !.status = "succeeded", !.output = TriageUrl("crop")]
    /\ cropped = Decode(TriagePicture)
    /\ \E m \in MetricsOver(0..MaxProb) :
          /\ explain_out =
                [kind |-> "dict", heatmap |-> TriageUrl("explain"), metrics |-> m]
          /\ explain_pred =
                [Prediction("explain", "serum4321/tbsiglip", TriagePicture)
                   EXCEPT !.status = "succeeded", !.output = explain_out]
    /\ heatmap_img = Decode(TriagePicture)
    /\ result = None
    /\ events = <<StageCompleted("original", Decode(TriageUpload.bytes)),
                  StageCompleted("crop", Decode(TriagePicture)),
                  StageCompleted("heatmap", Decode(TriagePicture))>>
    /\ err = None
    /\ calls = [s \in CallSites |-> 1]
    /\ output_read = {"crop", "explain"}
    /\ prev_run = None

NextTriage == FinalResult

SpecTriage == InitTriage /\ [][NextTriage]_vars

\* ------------------------------------------- the pipeline's named states
\* The state of section 4.3 the execution is in: a stage is RUNNING from the
\* creation of its prediction until its picture is on the canvas.
PipelineState ==
    CASE pc \in {"idle", "get_deployments", "show_original"} -> "IDLE"
      [] pc = "crop_submit" -> "ORIGINAL_SHOWN"
      [] pc \in {"crop_wait", "crop_fetch", "crop_show"} -> "CROP_RUNNING"
      [] pc = "explain_submit" -> "CROP_SHOWN"
      [] pc \in {"explain_wait", "explain_fetch", "heatmap_show"} -> "EXPLAIN_RUNNING"
      [] pc = "final_result" -> "EXPLAIN_SHOWN"
      [] pc = "done" -> "RESULT_READY"
      [] pc = "failed" -> "Failed"

StateOrder == <<"IDLE", "ORIGINAL_SHOWN", "CROP_RUNNING", "CROP_SHOWN",
                "EXPLAIN_RUNNING", "EXPLAIN_SHOWN", "RESULT_READY">>
Rank(st) == CHOOSE i \in 1..Len(StateOrder) : StateOrder[i] = st

StageOrder == <<"original", "crop", "heatmap", "result">>
EventStage(e) == IF e.type = "ResultReady" THEN "result" ELSE e.stage
StageRank(stage) ==
    CASE stage \in {"upload", "deployments", "original"} -> 1
      [] stage = "crop" -> 2
      [] stage = "heatmap" -> 3
      [] stage = "result" -> 4

\* A step of the execution in progress, not the start of a new one.
InRunStep ==
    /\ pc' \notin {"idle", "get_deployments"}
    /\ ~(pc' = "failed" /\ err'.stage = "upload")

\* ================================================================ claims

\* C1 (as amended): for every probability p from 0 to 1 the triage gives
\* exactly one label, LIKELY Tb POSITIVE when p >= 0.60, MANUAL CHECK REQUIRED
\* when 0.40 <= p < 0.60, NEGATIVE when p < 0.40, each with its advice; both
\* boundaries belong to the upper band.
C1_TriageBands ==
    pc = "done" =>
        LET p == result.prob
        IN  /\ p = Get(Get(explain_out.metrics, EmptyDict).probability,
                       Number(0)).value
            /\ events[4].probability = p
            /\ events[4].label = result.label
            /\ events[4].advice = result.advice
            /\ canvas.label = result.label
            /\ canvas.advice = result.advice
            /\ p >= 6000 =>
                  /\ result.label = "LIKELY Tb POSITIVE"
                  /\ result.advice = "Visible induration detected"
            /\ (p >= 4000 /\ p < 6000) =>
                  /\ result.label = "MANUAL CHECK REQUIRED"
                  /\ result.advice =
                        "Visual features unclear - palpation recommended"
            /\ p < 4000 =>
                  /\ result.label = "NEGATIVE"
                  /\ result.advice = "No visible induration detected"

\* C1 witness: the boundary 0.60 has been triaged.
C1_Witness == pc = "done" /\ result.prob = 6000

\* C1 as first stated: the label of the upper band is LIKELY POSITIVE.
C1_AsStated ==
    pc = "done" =>
        /\ result.prob >= 6000 => result.label = "LIKELY POSITIVE"
        /\ (result.prob >= 4000 /\ result.prob < 6000) =>
              result.label = "MANUAL CHECK REQUIRED"
        /\ result.prob < 4000 => result.label = "NEGATIVE"

\* C2: when the explain output holds no usable probability (no metrics, no
\* probability, or a probability that is no number), the execution ends with
\* ResultReady, label NEGATIVE and probability 0, and never with an error.
UsableProbability(out) ==
    /\ out.metrics # Absent
    /\ out.metrics.probability.kind = "number"

C2_NoProbabilityIsNegative ==
    (/\ Len(events) >= 3
     /\ pc \in {"done", "failed"}
     /\ ~UsableProbability(explain_out)) =>
        /\ pc = "done"
        /\ err = None
        /\ Len(events) = 4
        /\ events[4].type = "ResultReady"
        /\ events[4].label = "NEGATIVE"
        /\ events[4].probability = 0

\* C3: the explain prediction exists only after the crop prediction has
\* ended and its picture has been fetched, decoded and shown, and its input
\* is the PNG of that picture.
C3_ExplainAfterCrop ==
    explain_pred # None =>
        /\ crop_pred # None
        /\ crop_pred.status \in Terminal
        /\ crop_pred.id \in output_read
        /\ calls["fetch_crop"] = 1
        /\ crop_pred.output.kind = "url"
        /\ crop_pred.output.response.status = 200
        /\ cropped # None
        /\ cropped.pixels = crop_pred.output.response.content.pixels
        /\ cropped.mode = "RGB"
        /\ Len(events) >= 2
        /\ events[2] = StageCompleted("crop", cropped)
        /\ explain_pred.input.format = "PNG"
        /\ explain_pred.input.pixels = cropped.pixels

\* C3 witness: the explain prediction has been created and has not ended.
C3_Witness == pc = "explain_wait" /\ explain_pred # None

\* C4: a failing step ends the execution at once; when an error is shown the
\* execution is in its failure state, no event of the failing stage or of a
\* later one has been emitted, no ResultReady has been emitted and the canvas
\* holds no card; a prediction that ended other than succeeded lets no event
\* of its stage through.
C4_FailFast ==
    /\ err # None =>
          /\ pc = "failed"
          /\ canvas.kind # "card"
          /\ \A i \in 1..Len(events) :
                /\ events[i].type # "ResultReady"
                /\ StageRank(EventStage(events[i])) < StageRank(err.stage)
    /\ canvas.kind = "card" => (pc = "done" /\ err = None)
    /\ (crop_pred # None /\ crop_pred.status \in {"failed", "canceled"}) =>
          Len(events) <= 1
    /\ (explain_pred # None /\ explain_pred.status \in {"failed", "canceled"}) =>
          Len(events) <= 2

\* C4 witness: the crop fetch was answered with HTTP 500.
C4_Witness ==
    /\ pc = "failed"
    /\ err = [type |-> "HTTPError", stage |-> "crop"]
    /\ crop_pred.output.response.status = 500

\* C5: a prediction that ended failed makes the await raise
\* RemoteInferenceError, and its output is never read.
C5_FailedJobRaisesAtAwait ==
    \A p \in {crop_pred, explain_pred} :
        (p # None /\ p.status = "failed") =>
            /\ pc = "failed"
            /\ err.type = "RemoteInferenceError"
            /\ p.id \notin output_read

\* C6: without the API credential the program fails at startup; no failure
\* for the missing credential is met in an execution started by Run.
C6_MissingCredentialFailsAtStartup ==
    ~token => ~(err # None /\ err.stage = "deployments")

\* C7: the picture submitted to the crop deployment is the picture the run
\* shows as its original image.
C7_CropInputIsShownOriginal ==
    (crop_pred # None /\ IsImageData(crop_pred.input)) =>
        /\ events[1] = StageCompleted("original", Decode(crop_pred.input))
        /\ canvas.kind = "image" /\ Len(events) = 1 =>
              canvas.image.pixels = crop_pred.input.pixels

\* C8: a run that follows a run which showed its own upload shows, for a
\* different uploaded picture, the picture of its own upload and never the
\* picture of the earlier run.
C8_RunsAreIndependent ==
    (/\ prev_run # None
     /\ IsImageData(prev_run.upload)
     /\ prev_run.original = Decode(prev_run.upload)
     /\ uploaded # None
     /\ IsImageData(uploaded.bytes)
     /\ Decode(uploaded.bytes) # prev_run.original
     /\ Len(events) >= 1) =>
        /\ events[1].image # prev_run.original
        /\ events[1] = StageCompleted("original", Decode(uploaded.bytes))

\* C9: within one execution the pipeline state moves only forward, one state
\* at a time, or into Failed, which it does not leave; the events are emitted
\* in the order original, crop, heatmap, result, each once, as many as the
\* state says; the card is on the canvas only after the heatmap event.
EventsInOrder ==
    /\ Len(events) <= Len(StageOrder)
    /\ \A i \in 1..Len(events) : EventStage(events[i]) = StageOrder[i]

EventsMatchState ==
    CASE PipelineState = "IDLE" -> Len(events) = 0
      [] PipelineState \in {"ORIGINAL_SHOWN", "CROP_RUNNING"} -> Len(events) = 1
      [] PipelineState \in {"CROP_SHOWN", "EXPLAIN_RUNNING"} -> Len(events) = 2
      [] PipelineState = "EXPLAIN_SHOWN" -> Len(events) = 3
      [] PipelineState = "RESULT_READY" -> Len(events) = 4
      [] PipelineState = "Failed" -> Len(events) <= 3

CardAfterHeatmap ==
    canvas.kind = "card" =>
        /\ Len(events) = 4
        /\ events[3].type = "StageCompleted"
        /\ events[3].stage = "heatmap"

ForwardStep ==
    /\ PipelineState = "Failed" => PipelineState' = "Failed"
    /\ PipelineState' # "Failed" =>
          /\ PipelineState # "Failed"
          /\ Rank(PipelineState') \in
                {Rank(PipelineState), Rank(PipelineState) + 1}
    /\ \/ events' = events
       \/ /\ Len(events') = Len(events) + 1
          /\ SubSeq(events', 1, Len(events)) = events

C9_ForwardOnly ==
    /\ [](EventsInOrder /\ EventsMatchState /\ CardAfterHeatmap)
    /\ [][InRunStep => ForwardStep]_vars

\* C9 witness: an execution has gone through every state to the card.
C9_Witness == pc = "done" /\ Len(events) = 4 /\ canvas.kind = "card"

\* C10: an execution creates at most one prediction per stage, awaits it at
\* most once and fetches each returned picture at most once; nothing is
\* tried again after a failure.
C10_AtMostOnce ==
    /\ \A site \in CallSites : calls[site] <= 1
    /\ calls["wait_crop"] <= calls["create_crop"]
    /\ calls["fetch_crop"] <= calls["wait_crop"]
    /\ calls["create_explain"] <= calls["fetch_crop"]
    /\ calls["wait_explain"] <= calls["create_explain"]
    /\ calls["fetch_heatmap"] <= calls["wait_explain"]

\* C10 witness: the crop fetch failed after one try.
C10_Witness ==
    /\ pc = "failed"
    /\ err.stage = "crop"
    /\ calls["fetch_crop"] = 1
    /\ calls["create_explain"] = 0

====
